---- MODULE Spec2Model ----
\* BTTS daily predictor (src/btts_predictor.py): one run of main() as a state
\* machine, plus calculate_btts_score as a pure function over bounded inputs.
\*
\* Numbers: goal averages are integers in hundredths (1.8 = 180); kickoff
\* timestamps are minutes of the day plus a UTC offset in minutes.
EXTENDS Integers, Sequences, FiniteSets, TLC

VARIABLES
    pc,            \* position of main()
    all_fixtures,  \* data["response"] of the fixtures request (line 161)
    fixtures,      \* result of get_today_fixtures()
    idx,           \* 1-based position of analyze_matches' loop
    home_stats,    \* local home_stats of the current iteration
    away_stats,    \* local away_stats of the current iteration
    last_score,    \* (score, details) of the last calculate_btts_score call
    analyzed,      \* the list analyze_matches builds, later sorted in place
    picks,         \* local picks of select_best_picks / main
    stat_calls,    \* teams/statistics requests issued so far, in order
    sent,          \* payloads handed to send_telegram_message, in order
    delivered      \* return values of send_telegram_message, in order

vars == <<pc, all_fixtures, fixtures, idx, home_stats, away_stats, last_score,
          analyzed, picks, stat_calls, sent, delivered>>

-----------------------------------------------------------------------------
\* Bounds of the model

\* longest upstream response built from FixturePool
MaxFixtures == 3
\* bulk upstream responses hold SAMPLE_SIZE .. SAMPLE_SIZE + BulkExtra fixtures
BulkExtra == 1

-----------------------------------------------------------------------------
\* Program constants

SAMPLE_SIZE == 50
QUALIFY_SCORE == 50
LEAGUE_MARGIN == 10
MIN_GAP_MINUTES == 120
SEASON == 2025

TARGET_LEAGUES ==
    { 39, 40, 41, 42, 140, 141, 135, 136, 78, 79, 80, 61, 62, 88, 89, 94, 95,
      144, 179, 180, 203, 204, 197, 218, 207, 119, 103, 113, 106, 345, 235,
      333, 283, 210, 286, 71, 72, 128, 239, 265, 274, 250, 253, 262, 233, 288,
      200, 186, 202 }

-----------------------------------------------------------------------------
\* Values

Min(a, b) == IF a < b THEN a ELSE b

Abs(x) == IF x < 0 THEN -x ELSE x

\* One statistic of a statistics response: a number, a missing key (or None,
\* which "or 0" turns into 0), or something float() or .get() raises on.
Num(v) == [k |-> "num", v |-> v]

Missing == [k |-> "missing", v |-> 0]

Malformed == [k |-> "malformed", v |-> 0]

\* the "N/A" a detail keeps when its factor raised
NA == [k |-> "na", v |-> 0]

\* A falsy statistics result: None (failed lookup, no "response") or empty.
NoStats ==
    [present |-> FALSE, for_home |-> Missing, for_away |-> Missing,
     against_home |-> Missing, against_away |-> Missing]

Stats(fh, fa, ah, aa) ==
    [present |-> TRUE, for_home |-> fh, for_away |-> fa,
     against_home |-> ah, against_away |-> aa]

\* A kickoff timestamp string: unparseable, or a wall-clock minute of the day
\* with a UTC offset ("aware", what the fixture source delivers); "naive" is
\* the kind of one without an offset.
BadDate == [kind |-> "bad", local |-> 0, off |-> 0]

Aware(hh, mm, offHours) == [kind |-> "aware", local |-> hh * 60 + mm, off |-> offHours * 60]

NoDetails ==
    [home_goals_avg |-> NA, away_goals_avg |-> NA,
     home_conceded_avg |-> NA, away_conceded_avg |-> NA]

-----------------------------------------------------------------------------
\* calculate_btts_score

\* float(x or 0): the value, or a raise
ParseFloat(val) ==
    CASE val.k = "num" -> [ok |-> TRUE, v |-> val.v]
      [] val.k = "missing" -> [ok |-> TRUE, v |-> 0]
      [] OTHER -> [ok |-> FALSE, v |-> 0]

HomeScoringPoints_Over(g) ==
    IF g >= 180 THEN 30
    ELSE IF g >= 150 THEN 20
    ELSE IF g >= 120 THEN 15
    ELSE IF g >= 100 THEN 10
    ELSE 0

HomeScoringPoints(g) ==
    IF g >= 180 THEN 25
    ELSE IF g >= 150 THEN 20
    ELSE IF g >= 120 THEN 15
    ELSE IF g >= 100 THEN 10
    ELSE 0

AwayScoringPoints(g) ==
    IF g >= 150 THEN 25
    ELSE IF g >= 120 THEN 20
    ELSE IF g >= 100 THEN 15
    ELSE IF g >= 80 THEN 10
    ELSE 0

HomeConcedingPoints(g) ==
    IF g >= 150 THEN 25
    ELSE IF g >= 120 THEN 20
    ELSE IF g >= 100 THEN 15
    ELSE IF g >= 80 THEN 10
    ELSE 0

AwayConcedingPoints(g) ==
    IF g >= 150 THEN 25
    ELSE IF g >= 120 THEN 20
    ELSE IF g >= 100 THEN 15
    ELSE IF g >= 80 THEN 10
    ELSE 0

\* One try block, given what float() made of the statistic and the points
\* of its tier: on a raise nothing of the block takes effect (float() is its
\* first statement). round(x, 2) leaves a two-decimal value as it is.
ScoreFactor(acc, parsed, field, points) ==
    IF parsed.ok
    THEN [score |-> acc.score + points,
          details |-> [acc.details EXCEPT ![field] = Num(parsed.v)]]
    ELSE acc

\* the tier points of each of the four statistics
FactorPoints(hs, aws) ==
    [home_goals |-> HomeScoringPoints(ParseFloat(hs.for_home).v),
     away_goals |-> AwayScoringPoints(ParseFloat(aws.for_away).v),
     home_conceded |-> HomeConcedingPoints(ParseFloat(hs.against_home).v),
     away_conceded |-> AwayConcedingPoints(ParseFloat(aws.against_away).v)]

\* the four try blocks as one: the first raise skips the rest
calculate_btts_score_OneTry(hs, aws) ==
    IF ~hs.present \/ ~aws.present
    THEN [score |-> 0, details |-> NoDetails]
    ELSE LET pts == FactorPoints(hs, aws)
             a0 == [score |-> 0, details |-> NoDetails]
             a1 == ScoreFactor(a0, ParseFloat(hs.for_home), "home_goals_avg", pts.home_goals)
             a2 == ScoreFactor(a1, ParseFloat(aws.for_away), "away_goals_avg", pts.away_goals)
             a3 == ScoreFactor(a2, ParseFloat(hs.against_home), "home_conceded_avg", pts.home_conceded)
             a4 == ScoreFactor(a3, ParseFloat(aws.against_away), "away_conceded_avg", pts.away_conceded)
         IN  IF ~ParseFloat(hs.for_home).ok THEN a0
             ELSE IF ~ParseFloat(aws.for_away).ok THEN a1
             ELSE IF ~ParseFloat(hs.against_home).ok THEN a2
             ELSE a4

calculate_btts_score(hs, aws) ==
    IF ~hs.present \/ ~aws.present
    THEN [score |-> 0, details |-> NoDetails]
    ELSE LET pts == FactorPoints(hs, aws)
             a0 == [score |-> 0, details |-> NoDetails]
             a1 == ScoreFactor(a0, ParseFloat(hs.for_home), "home_goals_avg", pts.home_goals)
             a2 == ScoreFactor(a1, ParseFloat(aws.for_away), "away_goals_avg", pts.away_goals)
             a3 == ScoreFactor(a2, ParseFloat(hs.against_home), "home_conceded_avg", pts.home_conceded)
             a4 == ScoreFactor(a3, ParseFloat(aws.against_away), "away_conceded_avg", pts.away_conceded)
         IN  a4

-----------------------------------------------------------------------------
\* get_today_fixtures

\* datetime.fromisoformat(...) succeeds
Parses(date) == date.kind # "bad"

\* (kickoff_time + timedelta(hours=1)).hour: the clock hour one hour after
\* the timestamp's own wall-clock time; its UTC offset plays no part.
WatHour(date) == ((date.local + 60) % 1440) \div 60

InTargetLeague(f) == f.league.id \in TARGET_LEAGUES

NotStarted_Any(f) == TRUE

NotStarted(f) == f.status = "NS"

\* lines 176-187: the hour test, or the bare except that keeps the fixture
Daytime(f) ==
    IF Parses(f.date) THEN 12 <= WatHour(f.date) /\ WatHour(f.date) <= 23 ELSE TRUE

Range(s) == { s[i] : i \in DOMAIN s }

\* random.sample(s, k): k elements at distinct positions, in any order. All
\* orders of equal elements are the same list.
RandomSample(s, k) ==
    IF Cardinality(Range(s)) = 1
    THEN { [i \in 1..k |-> s[1]] }
    ELSE { [i \in 1..k |-> s[f[i]]] :
             f \in { g \in [1..k -> DOMAIN s] :
                       \A a, b \in 1..k : a # b => g[a] # g[b] } }

Downselect_NoCap(s) == { s }

\* lines 191-194
Downselect(s) ==
    IF Len(s) > SAMPLE_SIZE THEN RandomSample(s, SAMPLE_SIZE) ELSE { s }

\* The lists get_today_fixtures can return for an upstream answer; data is
\* falsy or has no "response" when resp.ok is FALSE.
get_today_fixtures(resp) ==
    IF ~resp.ok
    THEN { <<>> }
    ELSE LET in_league == SelectSeq(resp.response, InTargetLeague)
             upcoming == SelectSeq(in_league, NotStarted)
             daytime_matches == SelectSeq(upcoming, Daytime)
         IN  Downselect(daytime_matches)

-----------------------------------------------------------------------------
\* analyze_matches

\* get_team_stats' request parameters
StatsRequest(team, league_id) == [team |-> team, league |-> league_id, season |-> SEASON]

Qualifies_Any(score) == score >= 0

\* line 328
Qualifies(score) == score >= QUALIFY_SCORE

\* lines 329-337
Entry(fixture, res) ==
    [fixture |-> fixture,
     score |-> res.score,
     home_team |-> fixture.home,
     away_team |-> fixture.away,
     league |-> fixture.league.name,
     kickoff |-> fixture.date,
     home_goals_avg |-> res.details.home_goals_avg,
     away_goals_avg |-> res.details.away_goals_avg,
     home_conceded_avg |-> res.details.home_conceded_avg,
     away_conceded_avg |-> res.details.away_conceded_avg]

-----------------------------------------------------------------------------
\* select_best_picks

\* list.sort(key=score, reverse=True), a stable sort: an element comes
\* before another when its score is higher, or equal and it was first.
SortByScoreDesc_Unstable(s) ==
    LET Before(i, j) ==
            s[i].score > s[j].score \/ (s[i].score = s[j].score /\ i > j)
        Rank(i) == Cardinality({ j \in DOMAIN s : Before(j, i) }) + 1
    IN  [k \in 1..Len(s) |-> s[CHOOSE i \in DOMAIN s : Rank(i) = k]]

\* line 353
SortByScoreDesc(s) ==
    LET Before(i, j) ==
            s[i].score > s[j].score \/ (s[i].score = s[j].score /\ i < j)
        Rank(i) == Cardinality({ j \in DOMAIN s : Before(j, i) }) + 1
    IN  [k \in 1..Len(s) |-> s[CHOOSE i \in DOMAIN s : Rank(i) = k]]

\* the UTC instant of an aware timestamp, the wall-clock time of a naive one
Instant(date) == date.local - date.off

\* lines 371-379: TRUE when the candidate is skipped. A timestamp that does
\* not parse, or an aware one against a naive one, raises: the rule is passed.
TooClose_Off(first, m) == FALSE

TooClose(first, m) ==
    IF Parses(first.kickoff) /\ Parses(m.kickoff) /\ first.kickoff.kind = m.kickoff.kind
    THEN Abs(Instant(m.kickoff) - Instant(first.kickoff)) < MIN_GAP_MINUTES
    ELSE FALSE

\* lines 363-367: TRUE when the candidate is skipped
SameLeagueSkip(first, m) ==
    m.league = first.league /\ m.score - first.score < LEAGUE_MARGIN

First(S) == CHOOSE x \in S : \A y \in S : x <= y

\* lines 357-384. The loop stops at two picks and tests every candidate
\* against picks[0] alone, so it accepts the first candidate at the
\* threshold, then the first later one that passes both rules against it.
GreedyWalk(s) ==
    LET good == { i \in DOMAIN s : ~(s[i].score < QUALIFY_SCORE) }
    IN  IF good = {} THEN <<>>
        ELSE LET i1 == First(good)
                 diverse == { j \in good : /\ j > i1
                                          /\ ~SameLeagueSkip(s[i1], s[j])
                                          /\ ~TooClose(s[i1], s[j]) }
             IN  IF diverse = {} THEN <<s[i1]>>
                 ELSE <<s[i1], s[First(diverse)]>>

Fallback_Off(sorted, walked) == walked

\* lines 386-390
Fallback(sorted, walked) ==
    IF Len(walked) < 2 /\ Len(sorted) >= 2 THEN SubSeq(sorted, 1, 2)
    ELSE IF Len(walked) < 1 /\ Len(sorted) >= 1 THEN <<sorted[1]>>
    ELSE walked

select_best_picks(analyzed_matches) ==
    IF Len(analyzed_matches) = 0 THEN <<>>
    ELSE LET sorted == SortByScoreDesc(analyzed_matches)
         IN  Fallback(sorted, GreedyWalk(sorted))

-----------------------------------------------------------------------------
\* format_time and the messages of main

\* strftime("%I:%M %p WAT") of the timestamp plus one hour, or "TBD"
format_time(date) ==
    IF ~Parses(date)
    THEN [tbd |-> TRUE, hour12 |-> 0, minute |-> 0, pm |-> FALSE]
    ELSE LET wat == (date.local + 60) % 1440
             h == wat \div 60
         IN  [tbd |-> FALSE,
              hour12 |-> IF h % 12 = 0 THEN 12 ELSE h % 12,
              minute |-> wat % 60,
              pm |-> h >= 12]

\* one "PICK #i" block of the message, lines 461-477
PickBlock(i, pick) ==
    [n |-> i,
     home_team |-> pick.home_team,
     away_team |-> pick.away_team,
     league |-> pick.league,
     kickoff |-> format_time(pick.kickoff),
     score |-> pick.score,
     home_goals_avg |-> pick.home_goals_avg,
     away_goals_avg |-> pick.away_goals_avg,
     home_conceded_avg |-> pick.home_conceded_avg,
     away_conceded_avg |-> pick.away_conceded_avg]

\* The payloads: text names the fixed text, blocks are the picks rendered.
NoFixturesMessage == [text |-> "No upcoming daytime fixtures found in target leagues today.", blocks |-> <<>>]

NoQualifiersMessage == [text |-> "No matches met the minimum BTTS confidence threshold today.", blocks |-> <<>>]

NoPicksMessage == [text |-> "Could not find suitable BTTS picks today.", blocks |-> <<>>]

PicksMessage(ps) ==
    [text |-> "BTTS DAILY PREDICTIONS", blocks |-> [i \in 1..Len(ps) |-> PickBlock(i, ps[i])]]

-----------------------------------------------------------------------------
\* The environment: what the fixture source and the statistics source answer

League(id, name) == [id |-> id, name |-> name]

Fixture(league, status, date, home, away) ==
    [league |-> league, status |-> status, date |-> date, home |-> home, away |-> away]

\* Fixtures of one day; every team plays once. Leagues 39 and 235 carry the
\* same name; league 2 is no target league.
FixturePool ==
    { Fixture(League(39, "Premier League"), "NS", Aware(13, 0, 0), 11, 12),
      Fixture(League(39, "Premier League"), "NS", Aware(16, 0, 0), 21, 22),
      Fixture(League(140, "La Liga"), "NS", Aware(14, 30, 0), 31, 32),
      Fixture(League(140, "La Liga"), "NS", Aware(19, 0, 0), 41, 42),
      Fixture(League(39, "Premier League"), "NS", BadDate, 51, 52),
      Fixture(League(2, "UEFA Champions League"), "NS", Aware(13, 0, 0), 61, 62),
      Fixture(League(140, "La Liga"), "FT", Aware(13, 0, 0), 71, 72),
      Fixture(League(140, "La Liga"), "NS", Aware(10, 59, 0), 81, 82),
      Fixture(League(235, "Premier League"), "NS", Aware(13, 0, 5), 91, 92) }

\* the fixture a bulk response repeats
BulkFixture == Fixture(League(39, "Premier League"), "NS", Aware(13, 0, 0), 11, 12)

\* The season aggregates the statistics source holds for a team.
TeamStats(team) ==
    CASE team = 11 -> Stats(Num(190), Num(100), Num(130), Num(90))
      [] team = 12 -> Stats(Num(140), Num(125), Num(110), Num(100))
      [] team = 21 -> Stats(Num(160), Num(90), Num(125), Num(140))
      [] team = 22 -> Stats(Num(130), Num(110), Num(95), Num(105))
      [] team = 31 -> Stats(Num(150), Num(70), Num(120), Num(60))
      [] team = 32 -> Stats(Num(200), Num(120), Num(40), Num(120))
      [] team = 41 -> Stats(Num(120), Num(80), Num(100), Num(85))
      [] team = 42 -> Stats(Num(95), Num(100), Num(150), Num(100))
      [] team = 51 -> Stats(Num(200), Num(150), Num(150), Num(150))
      [] team = 52 -> Stats(Num(180), Num(150), Num(100), Num(50))
      [] team = 91 -> Stats(Num(100), Num(200), Num(80), Num(10))
      [] team = 92 -> Stats(Num(0), Num(80), Num(0), Num(160))
      [] OTHER -> Stats(Missing, Missing, Missing, Missing)

\* A lookup fails (timeout, API error, no "response") or returns the aggregates.
StatsAnswers(team) == { NoStats, TeamStats(team) }

\* sequences of n distinct pool fixtures
DistinctSeqs(S, n) ==
    { s \in [1..n -> S] : \A a, b \in 1..n : a # b => s[a] # s[b] }

\* What make_api_request("fixtures") can give: nothing usable, a short list
\* of distinct fixtures, or a list at or above the sampling cap.
Responses ==
    { [ok |-> FALSE, response |-> <<>>] }
    \cup { [ok |-> TRUE, response |-> r] :
             r \in UNION { DistinctSeqs(FixturePool, n) : n \in 0..MaxFixtures } }
    \cup { [ok |-> TRUE, response |-> [i \in 1..n |-> BulkFixture]] :
             n \in SAMPLE_SIZE..(SAMPLE_SIZE + BulkExtra) }

-----------------------------------------------------------------------------
\* main

NoScore == [score |-> 0, details |-> NoDetails]

Init ==
    /\ pc = "start"
    /\ all_fixtures = <<>>
    /\ fixtures = <<>>
    /\ idx = 0
    /\ home_stats = NoStats
    /\ away_stats = NoStats
    /\ last_score = NoScore
    /\ analyzed = <<>>
    /\ picks = <<>>
    /\ stat_calls = <<>>
    /\ sent = <<>>
    /\ delivered = <<>>

\* the request is never made
Send_Skipped(message) ==
    /\ sent' = sent
    /\ delivered' = delivered

\* send_telegram_message: one POST, which succeeds or not
Send(message) ==
    /\ sent' = Append(sent, message)
    /\ \E ok \in BOOLEAN : delivered' = Append(delivered, ok)

\* line 420
GetTodayFixtures ==
    /\ pc = "start"
    /\ \E resp \in Responses :
         /\ all_fixtures' = resp.response
         /\ fixtures' \in get_today_fixtures(resp)
    /\ pc' = "fixtures"
    /\ UNCHANGED <<idx, home_stats, away_stats, last_score, analyzed, picks,
                   stat_calls, sent, delivered>>

\* lines 422-426
NoFixtures ==
    /\ pc = "fixtures"
    /\ Len(fixtures) = 0
    /\ Send(NoFixturesMessage)
    /\ pc' = "done"
    /\ UNCHANGED <<all_fixtures, fixtures, idx, home_stats, away_stats,
                   last_score, analyzed, picks, stat_calls>>

\* line 429, entering analyze_matches
StartAnalysis ==
    /\ pc = "fixtures"
    /\ Len(fixtures) > 0
    /\ idx' = 1
    /\ analyzed' = <<>>
    /\ pc' = "home"
    /\ UNCHANGED <<all_fixtures, fixtures, home_stats, away_stats, last_score,
                   picks, stat_calls, sent, delivered>>

\* line 317
LookupHome ==
    /\ pc = "home"
    /\ LET f == fixtures[idx]
       IN  /\ stat_calls' = Append(stat_calls, StatsRequest(f.home, f.league.id))
           /\ home_stats' \in StatsAnswers(f.home)
    /\ pc' = "away"
    /\ UNCHANGED <<all_fixtures, fixtures, idx, away_stats, last_score,
                   analyzed, picks, sent, delivered>>

\* line 320
LookupAway ==
    /\ pc = "away"
    /\ LET f == fixtures[idx]
       IN  /\ stat_calls' = Append(stat_calls, StatsRequest(f.away, f.league.id))
           /\ away_stats' \in StatsAnswers(f.away)
    /\ pc' = "score"
    /\ UNCHANGED <<all_fixtures, fixtures, idx, home_stats, last_score,
                   analyzed, picks, sent, delivered>>

\* lines 324-340, and the loop's step
ScoreFixture ==
    /\ pc = "score"
    /\ LET res == calculate_btts_score(home_stats, away_stats)
       IN  /\ last_score' = res
           /\ analyzed' = IF Qualifies(res.score)
                          THEN Append(analyzed, Entry(fixtures[idx], res))
                          ELSE analyzed
    /\ idx' = idx + 1
    /\ pc' = IF idx + 1 > Len(fixtures) THEN "analyzed" ELSE "home"
    /\ UNCHANGED <<all_fixtures, fixtures, home_stats, away_stats, picks,
                   stat_calls, sent, delivered>>

\* lines 431-435
NoQualifiers ==
    /\ pc = "analyzed"
    /\ Len(analyzed) = 0
    /\ Send(NoQualifiersMessage)
    /\ pc' = "done"
    /\ UNCHANGED <<all_fixtures, fixtures, idx, home_stats, away_stats,
                   last_score, analyzed, picks, stat_calls>>

\* line 438, select_best_picks up to the end of its loop: the sort in place
\* and the greedy walk
SelectWalk ==
    /\ pc = "analyzed"
    /\ Len(analyzed) > 0
    /\ analyzed' = SortByScoreDesc(analyzed)
    /\ picks' = GreedyWalk(analyzed')
    /\ pc' = "walked"
    /\ UNCHANGED <<all_fixtures, fixtures, idx, home_stats, away_stats,
                   last_score, stat_calls, sent, delivered>>

\* lines 386-392, the rest of select_best_picks
SelectFallback ==
    /\ pc = "walked"
    /\ picks' = Fallback(analyzed, picks)
    /\ pc' = "picked"
    /\ UNCHANGED <<all_fixtures, fixtures, idx, home_stats, away_stats,
                   last_score, analyzed, stat_calls, sent, delivered>>

\* the message main sends once it has the picks, lines 440-490
Report(ps) == IF Len(ps) = 0 THEN NoPicksMessage ELSE PicksMessage(ps)

SendReport ==
    /\ pc = "picked"
    /\ Send(Report(picks))
    /\ pc' = "done"
    /\ UNCHANGED <<all_fixtures, fixtures, idx, home_stats, away_stats,
                   last_score, analyzed, picks, stat_calls>>

Next ==
    \/ GetTodayFixtures
    \/ NoFixtures
    \/ StartAnalysis
    \/ LookupHome
    \/ LookupAway
    \/ ScoreFixture
    \/ NoQualifiers
    \/ SelectWalk
    \/ SelectFallback
    \/ SendReport

Spec == Init /\ [][Next]_vars

\* Every step of main is a bounded computation or a request with a timeout
\* (timeout=10), so a run that can take a step takes one.
FairSpec == Spec /\ WF_vars(Next)

-----------------------------------------------------------------------------
\* calculate_btts_score on its own, over bounded inputs

\* the cutpoints of every tier, their neighbours below, and the extremes
StatValues ==
    { Missing, Malformed }
    \cup { Num(v) : v \in { 0, 79, 80, 99, 100, 119, 120, 149, 150, 179, 180, 250 } }

\* The fields the other side's factors read are either all missing or all high.
HomeStatsInputs ==
    { NoStats }
    \cup { Stats(fh, o, ah, o) : fh \in StatValues, ah \in StatValues, o \in { Missing, Num(180) } }

AwayStatsInputs ==
    { NoStats }
    \cup { Stats(o, fa, o, aa) : fa \in StatValues, aa \in StatValues, o \in { Missing, Num(180) } }

InitScore ==
    /\ pc = "calc"
    /\ home_stats \in HomeStatsInputs
    /\ away_stats \in AwayStatsInputs
    /\ all_fixtures = <<>>
    /\ fixtures = <<>>
    /\ idx = 0
    /\ last_score = NoScore
    /\ analyzed = <<>>
    /\ picks = <<>>
    /\ stat_calls = <<>>
    /\ sent = <<>>
    /\ delivered = <<>>

\* line 324 alone
CalcScore ==
    /\ pc = "calc"
    /\ last_score' = calculate_btts_score(home_stats, away_stats)
    /\ pc' = "calc_done"
    /\ UNCHANGED <<all_fixtures, fixtures, idx, home_stats, away_stats,
                   analyzed, picks, stat_calls, sent, delivered>>

NextScore == CalcScore

SpecScore == InitScore /\ [][NextScore]_vars

-----------------------------------------------------------------------------
\* Properties

\* points of a value on a ladder of four descending cutpoints
Ladder(v, cuts) ==
    IF v >= cuts[1] THEN 25
    ELSE IF v >= cuts[2] THEN 20
    ELSE IF v >= cuts[3] THEN 15
    ELSE IF v >= cuts[4] THEN 10
    ELSE 0

HomeCuts == <<180, 150, 120, 100>>

OtherCuts == <<150, 120, 100, 80>>

\* what one factor is worth when its statistic is a number, else 0
FactorWorth(val, cuts) == IF val.k = "num" THEN Ladder(val.v, cuts) ELSE 0

\* the sum over the factors of a side whose statistics object is there
SideWorth(st, forVal, againstVal, forCuts) ==
    IF st.present THEN FactorWorth(forVal, forCuts) + FactorWorth(againstVal, OtherCuts) ELSE 0

\* C1: calculate_btts_score returns a non-negative integer of at most 100,
\* whatever the two statistics inputs are (present, partly filled or absent).
C1_ScoreBounded ==
    pc = "calc_done" => last_score.score \in 0..100

C1_Witness ==
    /\ pc = "calc_done"
    /\ last_score.score = 100
    /\ home_stats.present /\ away_stats.present

\* C2 as stated: the score is the sum of the tier points of exactly the
\* factors whose statistic is available and numeric, so a missing statistic
\* (or a missing statistics object of one team) costs only its own factors.
C2_AsStated ==
    pc = "calc_done" =>
        last_score.score =
            SideWorth(home_stats, home_stats.for_home, home_stats.against_home, HomeCuts)
            + SideWorth(away_stats, away_stats.for_away, away_stats.against_away, OtherCuts)

\* C2 amended: with both statistics objects present the score is the sum of
\* the tier points of the factors whose statistic is numeric, a missing or
\* malformed one costing only its own factor; with either object absent the
\* score is 0 whatever the other object holds.
C2_FactorsIndependent ==
    pc = "calc_done" =>
        last_score.score =
            IF home_stats.present /\ away_stats.present
            THEN FactorWorth(home_stats.for_home, HomeCuts)
                 + FactorWorth(away_stats.for_away, OtherCuts)
                 + FactorWorth(home_stats.against_home, OtherCuts)
                 + FactorWorth(away_stats.against_away, OtherCuts)
            ELSE 0

C2_Witness ==
    /\ pc = "calc_done"
    /\ home_stats.present /\ away_stats.present
    /\ home_stats.for_home = Malformed
    /\ away_stats.for_away = Missing
    /\ last_score.score = 50


\* ---- the run of main ----

Qualifying(s) ==
    LET Good(e) == e.score >= 50 IN SelectSeq(s, Good)

\* both timestamps parse and can be subtracted
Comparable(a, b) ==
    a.kickoff.kind # "bad" /\ b.kickoff.kind # "bad" /\ a.kickoff.kind = b.kickoff.kind

GapMinutes(a, b) ==
    LET d == (a.kickoff.local - a.kickoff.off) - (b.kickoff.local - b.kickoff.off)
    IN  IF d < 0 THEN -d ELSE d

\* ps holds entries of s, in the order s has them
InOrderOf(ps, s) ==
    \/ Len(ps) = 0
    \/ Len(ps) = 1 /\ \E i \in DOMAIN s : s[i] = ps[1]
    \/ Len(ps) = 2 /\ \E i, j \in DOMAIN s : i < j /\ s[i] = ps[1] /\ s[j] = ps[2]

\* C3: a fixture whose home and away statistics are both absent scores 0, is
\* not added to the analyzed list, and every pick is an analyzed entry that
\* reached the threshold: such a fixture is never a pick nor in the report.
C3_AbsentNeverPicked ==
    /\ [][ (pc = "score" /\ ~home_stats.present /\ ~away_stats.present)
              => (last_score'.score = 0 /\ analyzed' = analyzed) ]_vars
    /\ [](\A i \in DOMAIN picks :
              /\ picks[i].score >= 50
              /\ \E j \in DOMAIN analyzed : analyzed[j] = picks[i])
    /\ [](pc = "done" /\ Len(picks) > 0 =>
              /\ Len(sent[1].blocks) = Len(picks)
              /\ \A i \in DOMAIN picks : sent[1].blocks[i].score = picks[i].score)

C3_Witness ==
    /\ pc = "done"
    /\ Len(fixtures) = 2
    /\ ~home_stats.present /\ ~away_stats.present
    /\ Len(picks) = 1
    /\ picks[1].fixture = fixtures[1]

\* C4 as stated: after the greedy walk, a second-ranked candidate in the
\* competition of the first pick is accepted when the two scores are at least
\* 10 apart (and the kickoffs are not within 2 hours), and is passed over for
\* the next candidate when they are less than 10 apart.
C4_MarginAsStated ==
    (pc = "walked" /\ Len(analyzed) >= 2
        /\ analyzed[2].fixture.league.id = analyzed[1].fixture.league.id) =>
        /\ (analyzed[1].score - analyzed[2].score >= 10
              /\ Comparable(analyzed[1], analyzed[2])
              /\ GapMinutes(analyzed[1], analyzed[2]) >= 120)
             => picks = <<analyzed[1], analyzed[2]>>
        /\ analyzed[1].score - analyzed[2].score < 10
             => (Len(picks) < 2 \/ picks[2] # analyzed[2])

\* C5 as stated: a candidate less than 2 hours from the accepted pick is not
\* the second pick of the result; one 2 hours or more away passes the rule.
C5_AsStated ==
    /\ (pc = "picked" /\ Len(picks) = 2 /\ Comparable(picks[1], picks[2]))
          => GapMinutes(picks[1], picks[2]) >= 120
    /\ (pc = "walked" /\ Len(analyzed) >= 2
          /\ analyzed[2].league # analyzed[1].league
          /\ Comparable(analyzed[1], analyzed[2])
          /\ GapMinutes(analyzed[1], analyzed[2]) >= 120)
          => picks = <<analyzed[1], analyzed[2]>>

\* C5 amended: the greedy walk never accepts a candidate whose kickoff it
\* computes to be less than 2 hours from the first pick's; such a candidate
\* is in the result only through the fallback, which takes the top two when
\* no candidate passed both diversity rules. A candidate 2 hours or more away
\* is not rejected by the rule.
C5_WalkKeepsGap ==
    /\ (pc = "walked" /\ Len(picks) = 2 /\ Comparable(picks[1], picks[2]))
          => GapMinutes(picks[1], picks[2]) >= 120
    /\ (pc = "picked" /\ Len(picks) = 2 /\ Comparable(picks[1], picks[2])
          /\ GapMinutes(picks[1], picks[2]) < 120)
          => /\ picks = SubSeq(analyzed, 1, 2)
             /\ \A j \in 2..Len(analyzed) :
                    \/ analyzed[j].league = analyzed[1].league
                    \/ Comparable(analyzed[1], analyzed[j])
                         /\ GapMinutes(analyzed[1], analyzed[j]) < 120
    /\ (pc = "walked" /\ Len(analyzed) >= 2
          /\ analyzed[2].league # analyzed[1].league
          /\ Comparable(analyzed[1], analyzed[2])
          /\ GapMinutes(analyzed[1], analyzed[2]) >= 120)
          => picks = <<analyzed[1], analyzed[2]>>

C5_Witness ==
    /\ pc = "picked"
    /\ Len(analyzed) = 3
    /\ Comparable(analyzed[1], analyzed[2])
    /\ GapMinutes(analyzed[1], analyzed[2]) = 90
    /\ analyzed[2].league # analyzed[1].league
    /\ picks = <<analyzed[1], analyzed[3]>>

\* C6: select_best_picks returns at most 2 entries, in non-increasing score
\* order, entries of equal score in the order of the input list: the sort
\* keeps the input order of equal scores, and the picks, after the walk and
\* after the fallback, follow the sorted list.
C6_AtMostTwoSorted ==
    /\ [][ (pc = "analyzed" /\ Len(analyzed) > 0) =>
              /\ \A e \in Range(analyzed) :
                    LET Tie(x) == x.score = e.score
                    IN  SelectSeq(analyzed', Tie) = SelectSeq(analyzed, Tie)
              /\ InOrderOf(picks', analyzed') ]_vars
    /\ [][ pc = "walked" => InOrderOf(picks', analyzed) ]_vars
    /\ [](/\ Len(picks) <= 2
          /\ \A i, j \in DOMAIN picks : i < j => picks[i].score >= picks[j].score)

C6_Witness ==
    /\ pc = "picked"
    /\ Len(picks) = 2
    /\ picks[1].score = picks[2].score
    /\ picks[1] # picks[2]
    /\ Len(analyzed) = 3

C8_OneMessage ==
    /\ <>(pc = "done")
    /\ [](Len(sent) <= 1 /\ Len(delivered) = Len(sent))
    /\ [](pc = "done" =>
            /\ Len(sent) = 1
            /\ sent[1].text # ""
            /\ Len(fixtures) = 0 =>
                 sent[1].text = "No upcoming daytime fixtures found in target leagues today."
            /\ (Len(fixtures) > 0 /\ Len(analyzed) = 0) =>
                 sent[1].text = "No matches met the minimum BTTS confidence threshold today."
            /\ Len(analyzed) > 0 =>
                 /\ sent[1].text = "BTTS DAILY PREDICTIONS"
                 /\ Len(sent[1].blocks) = Len(picks)
                 /\ Len(picks) >= 1)

C8_Witness ==
    /\ pc = "done"
    /\ Len(fixtures) > 0
    /\ Len(analyzed) = 0
    /\ Len(sent) = 1
    /\ delivered = <<FALSE>>

\* the kickoff is between 12:00 and 23:59 on the UTC+1 clock
InWindowAtUtcPlus1(date) ==
    /\ date.kind = "aware"
    /\ LET wat == date.local - date.off + 60
       IN  720 <= wat /\ wat <= 1439

\* C9 as stated: every returned fixture is in a target league, has status
\* NS and kicks off between 12:00 and 23:59 at UTC+1.
C9_AsStated ==
    \A i \in DOMAIN fixtures :
        /\ fixtures[i].league.id \in TARGET_LEAGUES
        /\ fixtures[i].status = "NS"
        /\ InWindowAtUtcPlus1(fixtures[i].date)

\* C9 amended: every returned fixture is in a target league and has status
\* NS, and its kickoff timestamp either cannot be parsed or shows, one hour
\* after its own wall-clock time (UTC+1 for a UTC timestamp), an hour from 12
\* to 23.
C9_Filtered ==
    \A i \in DOMAIN fixtures :
        /\ fixtures[i].league.id \in TARGET_LEAGUES
        /\ fixtures[i].status = "NS"
        /\ \/ fixtures[i].date.kind = "bad"
           \/ LET clock == (fixtures[i].date.local + 60) % 1440
              IN  720 <= clock /\ clock <= 1439

C9_Witness ==
    /\ pc = "fixtures"
    /\ Len(all_fixtures) = 3
    /\ Len(fixtures) = 2
    /\ fixtures[1].date.kind = "bad"
    /\ fixtures[2].date.off # 0

\* the requests analyze_matches issues for a list: home then away, per fixture
ExpectedCalls(fs) ==
    [k \in 1..(2 * Len(fs)) |->
        LET f == fs[(k + 1) \div 2]
        IN  [team |-> IF k % 2 = 1 THEN f.home ELSE f.away,
             league |-> f.league.id,
             season |-> 2025]]

\* number of requests issued when main is at pc
CallsDue ==
    CASE pc \in {"start", "fixtures"} -> 0
      [] pc = "home" -> 2 * (idx - 1)
      [] pc = "away" -> 2 * (idx - 1) + 1
      [] pc = "score" -> 2 * idx
      [] pc \in {"analyzed", "walked", "picked"} -> 2 * Len(fixtures)
      [] OTHER -> IF idx = 0 THEN 0 ELSE 2 * Len(fixtures)

\* C10: get_today_fixtures returns at most 50 fixtures; the run issues two
\* statistics lookups per fixture, home then away, each once whether it
\* fails or not, so never more than 100; and after a failed lookup the
\* analysis goes on to the next fixture, through to the last.
C10_CallBudget ==
    /\ Len(fixtures) <= 50
    /\ Len(stat_calls) <= 100
    /\ stat_calls = SubSeq(ExpectedCalls(fixtures), 1, CallsDue)

C10_Witness ==
    /\ pc = "done"
    /\ Len(all_fixtures) = 51
    /\ Len(fixtures) = 50
    /\ Len(stat_calls) = 100
    /\ ~home_stats.present
    /\ Len(analyzed) > 0

====
